---- MODULE Spec2Model ----
(***************************************************************************)
(* Community Resources Finder: the page script (filtering and rendering    *)
(* of the partner directory) and the service worker (install, activate,    *)
(* fetch), as state machines.                                              *)
(*                                                                         *)
(*   Spec    the page: DOMContentLoaded, then language, category and       *)
(*           clear-all clicks, over every dataset of at most MaxPartners   *)
(*           entries drawn from PartnerPool.                               *)
(*   SpecSW  the service worker: install, activate and fetch events over   *)
(*           every initial cache store drawn from InitialStores.           *)
(*   SpecFn  the pure functions (the sanitizers, generateQrCode,           *)
(*           sanitizePartnerData, validatePartnerData) applied to every    *)
(*           input of SanitizerInputs and every dataset of RawDatasets.    *)
(*   SpecBoot the page from the start of its DOMContentLoaded listener,    *)
(*           over raw datasets that may lack fields, with and without the  *)
(*           security manager, and with the title animation running.       *)
(*   SpecNotices the global error handlers and the notices they show.      *)
(***************************************************************************)
EXTENDS Integers, Sequences, FiniteSets, TLC

VARIABLES
    \* ---- page (script.js) ----
    pc,                 \* "start", "load" once the dataset is validated ("aborted"
                        \* when that threw), "ready" once the listener has run
    sanitizedPartners,  \* the dataset every render reads
    selectedLanguage,   \* filter state
    selectedCommunity,  \* filter state
    markerLayer,        \* [defined, layers]: the Leaflet layer group, or undefined
    organisationList,   \* children of #organisation-list, in document order
    listHeader,         \* text of #list-header
    uiLanguage,         \* translation table last applied to [data-translate-key]
    activeLanguage,     \* language button carrying class 'active'
    activeCommunity,    \* category button carrying class 'active'
    \* ---- service worker (service-worker.js) ----
    swState,            \* lifecycle state of this worker
    swStep,             \* position inside the running install / activate handler
    caches,             \* cache store: cache name -> set of stored request URLs
    fetched,            \* addAll: assets whose network fetch has succeeded so far
    keysResult,         \* activate: the cacheNames array caches.keys() resolved to
    toDelete,           \* activate: stale cache names still to be deleted
    skipWaitingCalled,  \* self.skipWaiting() has been called
    clientsClaimed,     \* self.clients.claim() has been called
    fetchEvent,         \* the fetch event being handled and its answer
    \* ---- pure functions ----
    input,              \* the argument: a JavaScript value
    dataset,            \* the argument of the dataset functions
    call,               \* the last call made: function, environment, result
    \* ---- startup (script.js) ----
    partners,           \* the raw dataset of the script
    security,           \* "unset", then "present" or "absent": the SecurityManager
    validation,         \* result of validatePartnerData at startup, or NoValidation
    uncaught,           \* the last handler run ended in an uncaught exception
    currentIndex,       \* startScrollingCategory: index of the category shown
    \* ---- global error handlers (script.js) ----
    handlersRegistered, \* the 'error' and 'unhandledrejection' listeners are set
    notices,            \* notice elements attached to document.body, by id
    created,            \* number of notices created so far
    timers              \* ids of the notices whose 10 s timer is still pending

pageVars == <<pc, sanitizedPartners, selectedLanguage, selectedCommunity,
              markerLayer, organisationList, listHeader, uiLanguage,
              activeLanguage, activeCommunity>>
swVars == <<swState, swStep, caches, fetched, keysResult, toDelete, skipWaitingCalled,
            clientsClaimed, fetchEvent>>
fnVars == <<input, dataset, call>>
bootVars == <<partners, security, validation, uncaught, currentIndex>>
noticeVars == <<handlersRegistered, notices, created, timers>>
vars == <<pageVars, swVars, fnVars, bootVars, noticeVars>>

-----------------------------------------------------------------------------
(* JavaScript values: undefined, numbers and strings, with JS truthiness.   *)

Undefined == [t |-> "undefined"]
Null == [t |-> "null"]
Obj == [t |-> "object"]
Num(n) == [t |-> "number", v |-> n]
Str(s) == [t |-> "string", v |-> s]

\* ToBoolean: undefined, null, 0 and "" are falsy
Truthy(x) ==
    CASE x.t = "undefined" -> FALSE
      [] x.t = "null" -> FALSE
      [] x.t = "number" -> x.v # 0
      [] x.t = "string" -> Len(x.v) # 0
      [] x.t = "object" -> TRUE

\* a || b
Or(a, b) == IF Truthy(a) THEN a ELSE b

\* obj[key] on a plain object: undefined when the key is absent
Get(obj, key) == IF key \in DOMAIN obj THEN obj[key] ELSE Undefined

\* element.textContent = v, for v a string or undefined (a nullable DOMString:
\* undefined is stored as the empty string)
TextContent(x) == IF x.t = "string" THEN x.v ELSE ""

RECURSIVE decimal(_)
decimal(n) ==
    IF n < 10 THEN <<ToString(n)>>
    ELSE decimal(n \div 10) \o decimal(n % 10)

\* `${x}`
TemplateString(x) ==
    CASE x.t = "undefined" -> <<"u", "n", "d", "e", "f", "i", "n", "e", "d">>
      [] x.t = "null" -> <<"n", "u", "l", "l">>
      [] x.t = "number" -> decimal(x.v)
      [] x.t = "object" -> <<"[", "o", "b", "j", "e", "c", "t", " ",
                             "O", "b", "j", "e", "c", "t", "]">>
      [] x.t = "string" -> x.v

\* Array.prototype.includes
Includes(arr, x) == \E k \in 1..Len(arr) : arr[k] = x

-----------------------------------------------------------------------------
(* Bounds and input domains of the page.                                    *)

MaxPartners == 2

\* data-filter values of the language buttons; "Tagalog" has no translation table
LanguageButtons == {"English", "Italian", "Greek", "Tagalog"}

\* data-filter values of the category buttons; no pool entry is in "Youth"
CommunityButtons == {"First Nations", "Arts", "Youth"}

\* the entry shapes of the pool: each languages list (none, English only,
\* another language only, both) with descriptions present, absent and empty,
\* and coordinates present, zero and absent
Profiles == {
    [name |-> "Org A", lat |-> Num(-34), lng |-> Num(151), languages |-> <<"English">>,
     description |-> [English |-> Str("desc en A"), Italian |-> Str("desc it A")]],
    [name |-> "Org A", lat |-> Num(-34), lng |-> Num(151), languages |-> <<"Italian">>,
     description |-> [English |-> Str("desc en A"), Italian |-> Str("desc it A")]],
    [name |-> "Org B", lat |-> Num(-33), lng |-> Num(150), languages |-> <<"English">>,
     description |-> [English |-> Str("desc en B")]],
    [name |-> "Org B", lat |-> Num(-33), lng |-> Num(150),
     languages |-> <<"Italian", "English">>,
     description |-> [English |-> Str("desc en B")]],
    [name |-> "Org C", lat |-> Num(0), lng |-> Num(151), languages |-> <<"Italian">>,
     description |-> [English |-> Str(""), Italian |-> Str("desc it C")]],
    [name |-> "Org C", lat |-> Num(0), lng |-> Num(151), languages |-> <<>>,
     description |-> [English |-> Str(""), Italian |-> Str("desc it C")]],
    [name |-> "Org D", lat |-> Num(-33), lng |-> Undefined,
     languages |-> <<"Italian", "English">>,
     description |-> [English |-> Str("desc en D"), Italian |-> Str("")]],
    [name |-> "Org D", lat |-> Num(-33), lng |-> Undefined, languages |-> <<>>,
     description |-> [English |-> Str("desc en D"), Italian |-> Str("")]] }

PartnerPool ==
    { [name |-> s.name, lat |-> s.lat, lng |-> s.lng, community |-> c,
       languages |-> s.languages, description |-> s.description] :
        s \in Profiles, c \in {"First Nations", "Arts"} }

Datasets == UNION { [1..n -> PartnerPool] : n \in 0..MaxPartners }

-----------------------------------------------------------------------------
(* script.js: translations, filter and renderer.                            *)

translations ==
    [English |-> [listHeader |-> "Service Directory",
                  noServicesFound |-> "No services found for this category."],
     Italian |-> [listHeader |-> "Elenco dei servizi",
                  noServicesFound |-> "Nessun servizio trovato per questa categoria."],
     Greek   |-> [listHeader |-> "Κατάλογος Υπηρεσιών",
                  noServicesFound |-> "Δεν βρέθηκαν υπηρεσίες για αυτήν την κατηγορία."]]

\* translations[language] || translations['English']
TranslationsKey(language) ==
    IF language \in DOMAIN translations THEN language ELSE "English"

currentTranslations(language) == translations[TranslationsKey(language)]

languageMatchNoBaseline(p, language) == Includes(p.languages, language)
languageMatchAlways(p, language) == TRUE
languageMatch(p, language) ==
    Includes(p.languages, language) \/ Includes(p.languages, "English")

communityMatchFaulty(p, community) == TRUE
communityMatch(p, community) == p.community = community

\* p.languages.includes(...) throws a TypeError on an entry without languages;
\* the filter callback runs on every entry
filterThrows(ps) == \E i \in 1..Len(ps) : "languages" \notin DOMAIN ps[i]

\* partner.description[selectedLanguage] throws a TypeError on an entry
\* without description
descriptionThrows(p) == "description" \notin DOMAIN p

\* sanitizedPartners.filter(...): the indices kept, in array order
RECURSIVE FilterFrom(_, _, _, _)
FilterFrom(ps, language, community, i) ==
    IF i > Len(ps) THEN <<>>
    ELSE (IF languageMatch(ps[i], language) /\ communityMatch(ps[i], community)
          THEN <<i>> ELSE <<>>)
         \o FilterFrom(ps, language, community, i + 1)

filteredPartners(ps, language, community) == FilterFrom(ps, language, community, 1)

\* partner.description[selectedLanguage] || partner.description['English']
description(p, language) ==
    Or(Get(p.description, language), Get(p.description, "English"))

\* the text a popup shows as description (popupDesc.textContent = description)
popupDescFaulty(p, language) == TextContent(Get(p.description, "English"))
popupDesc(p, language) == TextContent(description(p, language))

\* if (partner.email && partner.email !== 'N/A'): the addresses the card
\* links to with a mailto: anchor, none or one
emailLink(p) ==
    IF "email" \in DOMAIN p /\ Len(p.email) # 0 /\ p.email # <<"N", "/", "A">>
    THEN <<p.email>> ELSE <<>>

\* the <li> built for one partner; `partner` is its index in the dataset
ListItem(ps, i, language) ==
    [kind |-> "card", partner |-> i, name |-> ps[i].name,
     description |-> TextContent(description(ps[i], language)),
     emailLink |-> emailLink(ps[i])]

noResultsItemFaulty(language) ==
    [kind |-> "noResults", text |-> translations["English"].noServicesFound]
noResultsItem(language) ==
    [kind |-> "noResults", text |-> currentTranslations(language).noServicesFound]

\* L.marker([lat, lng]) with its popup
Marker(ps, i, language) ==
    [partner |-> i, lat |-> ps[i].lat.v, lng |-> ps[i].lng.v,
     name |-> ps[i].name, description |-> popupDesc(ps[i], language)]

\* markerLayer.clearLayers()
clearLayersFaulty(layers) == layers
clearLayers(layers) == <<>>

\* while (organisationList.firstChild) removeChild(...)
clearList(list) == <<>>

appendChildFaulty(list, item) == <<item>> \o list
appendChild(list, item) == Append(list, item)

\* if (partner.lat && partner.lng)
hasMarker(p) == Truthy(p.lat) /\ Truthy(p.lng)

\* body of filteredPartners.forEach
RenderPartner(ps, i, language, view) ==
    [list   |-> appendChild(view.list, ListItem(ps, i, language)),
     layers |-> IF hasMarker(ps[i])
                THEN Append(view.layers, Marker(ps, i, language))
                ELSE view.layers]

RECURSIVE RenderEach(_, _, _, _)
RenderEach(ps, f, language, view) ==
    IF f = <<>> THEN view
    ELSE IF descriptionThrows(ps[Head(f)]) THEN view
    ELSE RenderEach(ps, Tail(f), language, RenderPartner(ps, Head(f), language, view))

\* updateDisplay past its guard: the list and marker layer it leaves (what
\* was built up to the exception, when it throws)
Render(ps, language, community, list, layers) ==
    LET cleared == [list |-> clearList(list), layers |-> clearLayers(layers)]
    IN  IF filterThrows(ps) THEN cleared
        ELSE LET f == filteredPartners(ps, language, community)
             IN  IF Len(f) = 0
                 THEN [list |-> appendChild(cleared.list, noResultsItem(language)),
                       layers |-> cleared.layers]
                 ELSE RenderEach(ps, f, language, cleared)

\* updateDisplay past its guard ends in an uncaught TypeError
renderThrows(ps, language, community) ==
    IF filterThrows(ps) THEN TRUE
    ELSE LET f == filteredPartners(ps, language, community)
         IN  \E k \in 1..Len(f) : descriptionThrows(ps[f[k]])

\* updateDisplay(): returns early when the marker layer is missing
updateDisplay(ps, language, community, list, layer, header) ==
    IF ~layer.defined
    THEN [list |-> list, layer |-> layer, header |-> header, threw |-> FALSE]
    ELSE LET r == Render(ps, language, community, list, layer.layers)
         IN  [list |-> r.list,
              layer |-> [defined |-> TRUE, layers |-> r.layers],
              header |-> currentTranslations(language).listHeader,
              threw |-> renderThrows(ps, language, community)]

-----------------------------------------------------------------------------
(* Page actions.                                                            *)

PageInit ==
    /\ pc = "load"
    /\ sanitizedPartners \in Datasets
    /\ selectedLanguage = "English"
    /\ selectedCommunity = "First Nations"
    /\ markerLayer = [defined |-> FALSE, layers |-> <<>>]
    /\ organisationList = <<>>
    /\ listHeader = "Service Directory"
    /\ uiLanguage = "English"
    /\ activeLanguage = "English"
    /\ activeCommunity = "First Nations"

PageIdle ==
    /\ pc = "load"
    /\ sanitizedPartners = <<>>
    /\ selectedLanguage = "English"
    /\ selectedCommunity = "First Nations"
    /\ markerLayer = [defined |-> FALSE, layers |-> <<>>]
    /\ organisationList = <<>>
    /\ listHeader = "Service Directory"
    /\ uiLanguage = "English"
    /\ activeLanguage = "English"
    /\ activeCommunity = "First Nations"

\* The DOMContentLoaded listener: initializeMap (which leaves markerLayer
\* undefined when the container is missing or Leaflet throws),
\* setupFilterButtons, updateDisplay.
DOMContentLoaded ==
    /\ pc = "load"
    /\ \E mapOk \in BOOLEAN :
        LET layer == [defined |-> mapOk, layers |-> <<>>]
            r == updateDisplay(sanitizedPartners, selectedLanguage, selectedCommunity,
                               organisationList, layer, listHeader)
        IN  /\ markerLayer' = r.layer
            /\ organisationList' = r.list
            /\ listHeader' = r.header
            /\ uncaught' = r.threw
    /\ pc' = "ready"
    /\ UNCHANGED <<sanitizedPartners, selectedLanguage, selectedCommunity,
                   uiLanguage, activeLanguage, activeCommunity>>
    /\ UNCHANGED <<partners, security, validation, currentIndex>>
    /\ UNCHANGED <<swVars, fnVars, noticeVars>>

\* click on a button of #language-filters: applyTranslations, which ends in
\* updateDisplay
LanguageClick ==
    /\ pc = "ready"
    /\ \E filterValue \in LanguageButtons :
        LET r == updateDisplay(sanitizedPartners, filterValue, selectedCommunity,
                               organisationList, markerLayer, listHeader)
        IN  /\ selectedLanguage' = filterValue
            /\ activeLanguage' = filterValue
            /\ uiLanguage' = TranslationsKey(filterValue)
            /\ markerLayer' = r.layer
            /\ organisationList' = r.list
            /\ listHeader' = r.header
            /\ uncaught' = r.threw
    /\ UNCHANGED <<pc, sanitizedPartners, selectedCommunity, activeCommunity>>
    /\ UNCHANGED <<partners, security, validation, currentIndex>>
    /\ UNCHANGED <<swVars, fnVars, noticeVars>>

CommunityClickFaulty ==
    /\ pc = "ready"
    /\ \E filterValue \in CommunityButtons :
        LET r == updateDisplay(sanitizedPartners, "English", filterValue,
                               organisationList, markerLayer, listHeader)
        IN  /\ selectedCommunity' = filterValue
            /\ activeCommunity' = filterValue
            /\ selectedLanguage' = "English"
            /\ markerLayer' = r.layer
            /\ organisationList' = r.list
            /\ listHeader' = r.header
            /\ uncaught' = r.threw
    /\ UNCHANGED <<pc, sanitizedPartners, uiLanguage, activeLanguage>>
    /\ UNCHANGED <<partners, security, validation, currentIndex>>
    /\ UNCHANGED <<swVars, fnVars, noticeVars>>

\* click on a button of #community-filters
CommunityClick ==
    /\ pc = "ready"
    /\ \E filterValue \in CommunityButtons :
        LET r == updateDisplay(sanitizedPartners, selectedLanguage, filterValue,
                               organisationList, markerLayer, listHeader)
        IN  /\ selectedCommunity' = filterValue
            /\ activeCommunity' = filterValue
            /\ markerLayer' = r.layer
            /\ organisationList' = r.list
            /\ listHeader' = r.header
            /\ uncaught' = r.threw
    /\ UNCHANGED <<pc, sanitizedPartners, selectedLanguage, uiLanguage, activeLanguage>>
    /\ UNCHANGED <<partners, security, validation, currentIndex>>
    /\ UNCHANGED <<swVars, fnVars, noticeVars>>

\* click on #clear-all-filters: reset both filters, applyTranslations (which
\* renders), then updateDisplay once more (not reached when the first
\* render throws)
ClearAllClick ==
    /\ pc = "ready"
    /\ LET r1 == updateDisplay(sanitizedPartners, "English", "First Nations",
                               organisationList, markerLayer, listHeader)
           r2 == IF r1.threw THEN r1
                 ELSE updateDisplay(sanitizedPartners, "English", "First Nations",
                                    r1.list, r1.layer, r1.header)
       IN  /\ selectedLanguage' = "English"
           /\ selectedCommunity' = "First Nations"
           /\ activeLanguage' = "English"
           /\ activeCommunity' = "First Nations"
           /\ uiLanguage' = TranslationsKey("English")
           /\ markerLayer' = r2.layer
           /\ organisationList' = r2.list
           /\ listHeader' = r2.header
           /\ uncaught' = r2.threw
    /\ UNCHANGED <<pc, sanitizedPartners>>
    /\ UNCHANGED <<partners, security, validation, currentIndex>>
    /\ UNCHANGED <<swVars, fnVars, noticeVars>>

-----------------------------------------------------------------------------
(* service-worker.js: the cache store and the three listeners.  The cache   *)
(* store is the sequence of its caches in creation order, each a name and   *)
(* the set of request URLs it holds a response for.                         *)

CACHE_NAME == "community-resources-v1"

STATIC_ASSETS ==
    << "/", "/index.html", "/script.js", "/styles.css",
       "/security-implementation.js", "/lib/leaflet.js", "/lib/leaflet.css",
       "/lib/qrcode.js", "/lib/work-sans.css", "/assets/images/logo.png" >>

StaticAssetSet == { STATIC_ASSETS[k] : k \in 1..Len(STATIC_ASSETS) }

\* caches that may exist before this worker installs
OtherCacheNames == {"community-resources-v0", "map-tiles"}
StoredSets == { {"/index.html"}, {"/index.html", "/legacy.js"} }

RECURSIVE StoresOver(_)
StoresOver(names) ==
    {<<>>} \cup
    UNION { { <<[name |-> n, urls |-> u]>> \o rest : rest \in StoresOver(names \ {n}) } :
              n \in names, u \in StoredSets }

InitialStores == StoresOver(OtherCacheNames \cup {CACHE_NAME})

\* requests the page may issue once the worker controls it
RequestURLs == {"/index.html", "/script.js", "/legacy.js", "/tiles/11/1.png"}
Destinations == {"document", "script"}

cacheNames(store) == { store[k].name : k \in 1..Len(store) }

\* caches.open(name): the cache is created, empty, when it does not exist
open(store, name) ==
    IF name \in cacheNames(store) THEN store
    ELSE Append(store, [name |-> name, urls |-> {}])

\* cache.addAll resolves once every request has been fetched
addAllResolvesEarly(done) == done # {}
addAllResolves(done) == done = StaticAssetSet

\* cache.addAll stores the fetched responses in one batch
putAll(store, name, urls) ==
    [k \in 1..Len(store) |->
        IF store[k].name = name
        THEN [name |-> name, urls |-> store[k].urls \cup urls]
        ELSE store[k]]

\* cacheNames.filter(cacheName => cacheName !== CACHE_NAME)
staleCachesAll(names) == names
staleCaches(names) == { n \in names : n # CACHE_NAME }

\* caches.delete(name)
delete(store, name) == SelectSeq(store, LAMBDA c : c.name # name)

NoResponse == [from |-> "none", url |-> ""]

\* caches.match(url): the response of the first cache, in creation order,
\* that holds one; undefined (NoResponse) when none does
match(store, url) ==
    LET hits == { k \in 1..Len(store) : url \in store[k].urls }
    IN  IF hits = {} THEN NoResponse
        ELSE LET first == CHOOSE k \in hits : \A j \in hits : k <= j
             IN  [from |-> store[first].name, url |-> url]

\* response || fetch(event.request): whether the handler goes to the network
goesToNetworkAlways(response) == TRUE
goesToNetwork(response) == response = NoResponse

\* .catch(() => { if (event.request.destination === 'document')
\*                   return caches.match('/index.html'); })
catchFallbackNavigateOnly(store, destination) ==
    IF destination = "navigate" THEN match(store, "/index.html") ELSE NoResponse
catchFallback(store, destination) ==
    IF destination = "document" THEN match(store, "/index.html") ELSE NoResponse

SWInit ==
    /\ swState = "parsed"
    /\ swStep = "idle"
    /\ caches \in InitialStores
    /\ fetched = {}
    /\ keysResult = {}
    /\ toDelete = {}
    /\ skipWaitingCalled = FALSE
    /\ clientsClaimed = FALSE
    /\ fetchEvent = [phase |-> "none"]

SWIdle ==
    /\ swState = "parsed"
    /\ swStep = "idle"
    /\ caches = <<>>
    /\ fetched = {}
    /\ keysResult = {}
    /\ toDelete = {}
    /\ skipWaitingCalled = FALSE
    /\ clientsClaimed = FALSE
    /\ fetchEvent = [phase |-> "none"]

\* the browser dispatches 'install' to the new worker
InstallEvent ==
    /\ swState = "parsed"
    /\ swState' = "installing"
    /\ swStep' = "open"
    /\ UNCHANGED <<caches, fetched, keysResult, toDelete, skipWaitingCalled, clientsClaimed,
                   fetchEvent>>
    /\ UNCHANGED <<pageVars, fnVars, bootVars, noticeVars>>

\* caches.open(CACHE_NAME)
InstallOpen ==
    /\ swState = "installing" /\ swStep = "open"
    /\ caches' = open(caches, CACHE_NAME)
    /\ swStep' = "addAll"
    /\ UNCHANGED <<swState, fetched, keysResult, toDelete, skipWaitingCalled, clientsClaimed,
                   fetchEvent>>
    /\ UNCHANGED <<pageVars, fnVars, bootVars, noticeVars>>

\* cache.addAll: the network fetch of one asset succeeds
InstallFetchOk ==
    /\ swState = "installing" /\ swStep = "addAll"
    /\ \E asset \in StaticAssetSet \ fetched : fetched' = fetched \cup {asset}
    /\ UNCHANGED <<swState, swStep, caches, keysResult, toDelete, skipWaitingCalled,
                   clientsClaimed, fetchEvent>>
    /\ UNCHANGED <<pageVars, fnVars, bootVars, noticeVars>>

\* cache.addAll: the fetch of an asset fails; addAll rejects, nothing is
\* stored, waitUntil's promise rejects and the worker is discarded
InstallFetchFails ==
    /\ swState = "installing" /\ swStep = "addAll"
    /\ StaticAssetSet \ fetched # {}
    /\ swState' = "redundant"
    /\ swStep' = "rejected"
    /\ fetched' = {}
    /\ UNCHANGED <<caches, keysResult, toDelete, skipWaitingCalled, clientsClaimed, fetchEvent>>
    /\ UNCHANGED <<pageVars, fnVars, bootVars, noticeVars>>

\* cache.addAll resolves: every fetched response is stored
InstallAddAll ==
    /\ swState = "installing" /\ swStep = "addAll"
    /\ addAllResolves(fetched)
    /\ caches' = putAll(caches, CACHE_NAME, fetched)
    /\ fetched' = {}
    /\ swStep' = "skipWaiting"
    /\ UNCHANGED <<swState, keysResult, toDelete, skipWaitingCalled, clientsClaimed, fetchEvent>>
    /\ UNCHANGED <<pageVars, fnVars, bootVars, noticeVars>>

\* .then(() => self.skipWaiting()); the install promise resolves
InstallSkipWaiting ==
    /\ swState = "installing" /\ swStep = "skipWaiting"
    /\ skipWaitingCalled' = TRUE
    /\ swState' = "installed"
    /\ swStep' = "idle"
    /\ UNCHANGED <<caches, fetched, keysResult, toDelete, clientsClaimed, fetchEvent>>
    /\ UNCHANGED <<pageVars, fnVars, bootVars, noticeVars>>

\* the browser dispatches 'activate' (the worker does not wait: skipWaiting)
ActivateEvent ==
    /\ swState = "installed" /\ skipWaitingCalled
    /\ swState' = "activating"
    /\ swStep' = "keys"
    /\ UNCHANGED <<caches, fetched, keysResult, toDelete, skipWaitingCalled, clientsClaimed,
                   fetchEvent>>
    /\ UNCHANGED <<pageVars, fnVars, bootVars, noticeVars>>

\* caches.keys() and the filter: the deletions to perform
ActivateKeys ==
    /\ swState = "activating" /\ swStep = "keys"
    /\ keysResult' = cacheNames(caches)
    /\ toDelete' = staleCaches(cacheNames(caches))
    /\ swStep' = "delete"
    /\ UNCHANGED <<swState, caches, fetched, skipWaitingCalled, clientsClaimed,
                   fetchEvent>>
    /\ UNCHANGED <<pageVars, fnVars, bootVars, noticeVars>>

\* one caches.delete(cacheName) of the Promise.all completes
ActivateDelete ==
    /\ swState = "activating" /\ swStep = "delete"
    /\ \E n \in toDelete :
        /\ caches' = delete(caches, n)
        /\ toDelete' = toDelete \ {n}
    /\ UNCHANGED <<swState, swStep, fetched, keysResult, skipWaitingCalled, clientsClaimed,
                   fetchEvent>>
    /\ UNCHANGED <<pageVars, fnVars, bootVars, noticeVars>>

\* Promise.all has resolved: self.clients.claim(); the activate promise resolves
ActivateClaim ==
    /\ swState = "activating" /\ swStep = "delete"
    /\ toDelete = {}
    /\ clientsClaimed' = TRUE
    /\ swState' = "activated"
    /\ swStep' = "idle"
    /\ UNCHANGED <<caches, fetched, keysResult, toDelete, skipWaitingCalled, fetchEvent>>
    /\ UNCHANGED <<pageVars, fnVars, bootVars, noticeVars>>

\* a 'fetch' event reaches the active worker: caches.match(event.request)
\* and the first .then
FetchMatch ==
    /\ swState = "activated"
    /\ fetchEvent.phase \in {"none", "done"}
    /\ \E url \in RequestURLs, destination \in Destinations :
        LET response == match(caches, url)
        IN  fetchEvent' =
              IF goesToNetwork(response)
              THEN [phase |-> "network", url |-> url, destination |-> destination,
                    network |-> TRUE, networkResult |-> "pending",
                    response |-> NoResponse]
              ELSE [phase |-> "done", url |-> url, destination |-> destination,
                    network |-> FALSE, networkResult |-> "none",
                    response |-> response]
    /\ UNCHANGED <<swState, swStep, caches, fetched, keysResult, toDelete, skipWaitingCalled,
                   clientsClaimed>>
    /\ UNCHANGED <<pageVars, fnVars, bootVars, noticeVars>>

\* fetch(event.request) resolves: its response is the answer
FetchNetworkOkFaulty ==
    /\ fetchEvent.phase = "network"
    /\ fetchEvent' = [fetchEvent EXCEPT
                        !.phase = "done",
                        !.networkResult = "ok",
                        !.response = [from |-> "network", url |-> fetchEvent.url]]
    /\ caches' = putAll(open(caches, CACHE_NAME), CACHE_NAME, {fetchEvent.url})
    /\ UNCHANGED <<swState, swStep, fetched, keysResult, toDelete, skipWaitingCalled,
                   clientsClaimed>>
    /\ UNCHANGED <<pageVars, fnVars, bootVars, noticeVars>>

FetchNetworkOk ==
    /\ fetchEvent.phase = "network"
    /\ fetchEvent' = [fetchEvent EXCEPT
                        !.phase = "done",
                        !.networkResult = "ok",
                        !.response = [from |-> "network", url |-> fetchEvent.url]]
    /\ UNCHANGED <<swState, swStep, caches, fetched, keysResult, toDelete, skipWaitingCalled,
                   clientsClaimed>>
    /\ UNCHANGED <<pageVars, fnVars, bootVars, noticeVars>>

\* fetch(event.request) rejects: the .catch answers a document request with
\* caches.match('/index.html') and any other request with undefined
FetchNetworkFails ==
    /\ fetchEvent.phase = "network"
    /\ fetchEvent' = [fetchEvent EXCEPT
                        !.phase = "done",
                        !.networkResult = "failed",
                        !.response = catchFallback(caches, fetchEvent.destination)]
    /\ UNCHANGED <<swState, swStep, caches, fetched, keysResult, toDelete, skipWaitingCalled,
                   clientsClaimed>>
    /\ UNCHANGED <<pageVars, fnVars, bootVars, noticeVars>>

-----------------------------------------------------------------------------
(* security-implementation.js: the sanitizer.  A string is the sequence of  *)
(* its characters.                                                          *)

UpperCase == <<"A", "B", "C", "D", "E", "F", "G", "H", "I", "J", "K", "L", "M",
               "N", "O", "P", "Q", "R", "S", "T", "U", "V", "W", "X", "Y", "Z">>
LowerCase == <<"a", "b", "c", "d", "e", "f", "g", "h", "i", "j", "k", "l", "m",
               "n", "o", "p", "q", "r", "s", "t", "u", "v", "w", "x", "y", "z">>
Letters == {UpperCase[k] : k \in DOMAIN UpperCase} \cup {LowerCase[k] : k \in DOMAIN LowerCase}
Digits == {"0", "1", "2", "3", "4", "5", "6", "7", "8", "9"}

\* the case folding of the i flag
toLowerCase(c) ==
    IF \E k \in DOMAIN UpperCase : UpperCase[k] = c
    THEN LowerCase[CHOOSE k \in DOMAIN UpperCase : UpperCase[k] = c]
    ELSE c

\* \w and \s
IsWord(c) == c \in Letters \cup Digits \cup {"_"}
IsSpace(c) == c \in {" ", "\t", "\n", "\r"}

\* s begins with lit, ignoring case (lit in lower case)
StartsWith(s, lit) ==
    /\ Len(s) >= Len(lit)
    /\ \A k \in 1..Len(lit) : toLowerCase(s[k]) = lit[k]

\* s has t as a substring
Contains(s, t) ==
    \E i \in 0..(Len(s) - Len(t)) : \A k \in 1..Len(t) : s[i + k] = t[k]

\* .replace(/[<>]/g, '')
removeAnglesFaulty(s) == SelectSeq(s, LAMBDA c : c # "<")
removeAngles(s) == SelectSeq(s, LAMBDA c : c \notin {"<", ">"})

JavascriptColon == <<"j", "a", "v", "a", "s", "c", "r", "i", "p", "t", ":">>

\* .replace(/javascript:/gi, ''): one pass from left to right
RECURSIVE removeJavascript(_)
removeJavascript(s) ==
    IF s = <<>> THEN <<>>
    ELSE IF StartsWith(s, JavascriptColon)
    THEN removeJavascript(SubSeq(s, Len(JavascriptColon) + 1, Len(s)))
    ELSE <<Head(s)>> \o removeJavascript(Tail(s))

\* length of the longest run of \w characters of s from index i on
WordRun(s, i) ==
    CHOOSE n \in 0..Len(s) :
        /\ \A k \in i..(i + n - 1) : k <= Len(s) /\ IsWord(s[k])
        /\ (i + n > Len(s) \/ ~IsWord(s[i + n]))

\* length of the match of /on\w+=/i at the start of s, 0 when there is none
\* (\w+ is greedy and '=' is no \w, so only the longest run can match)
HandlerMatch(s) ==
    IF ~StartsWith(s, <<"o", "n">>) THEN 0
    ELSE LET n == WordRun(s, 3)
         IN  IF n >= 1 /\ 3 + n <= Len(s) /\ s[3 + n] = "=" THEN n + 3 ELSE 0

\* .replace(/on\w+=/gi, ''): one pass from left to right
RECURSIVE removeHandlers(_)
removeHandlers(s) ==
    IF s = <<>> THEN <<>>
    ELSE IF HandlerMatch(s) > 0
    THEN removeHandlers(SubSeq(s, HandlerMatch(s) + 1, Len(s)))
    ELSE <<Head(s)>> \o removeHandlers(Tail(s))

\* .trim()
RECURSIVE trim(_)
trim(s) ==
    IF s = <<>> THEN <<>>
    ELSE IF IsSpace(s[1]) THEN trim(Tail(s))
    ELSE IF IsSpace(s[Len(s)]) THEN trim(SubSeq(s, 1, Len(s) - 1))
    ELSE s

\* typeof x !== 'string'
notString(x) == x.t # "string"

sanitizeText(text) ==
    IF notString(text) THEN <<>>
    ELSE trim(removeHandlers(removeJavascript(removeAngles(text.v))))

\* the serialisation of a text node: innerHTML escapes &, < and >
escapeChar(c) ==
    CASE c = "&" -> <<"&", "a", "m", "p", ";">>
      [] c = "<" -> <<"&", "l", "t", ";">>
      [] c = ">" -> <<"&", "g", "t", ";">>
      [] OTHER -> <<c>>

RECURSIVE innerHTML(_)
innerHTML(s) == IF s = <<>> THEN <<>> ELSE escapeChar(Head(s)) \o innerHTML(Tail(s))

sanitizeHTML(x) == IF notString(x) THEN <<>> ELSE innerHTML(x.v)

\* /^[^\s@]+@[^\s@]+\.[^\s@]+$/.test(s)
emailRegexTest(s) ==
    \E i \in 2..Len(s) :
        /\ s[i] = "@"
        /\ \A k \in 1..Len(s) : ~IsSpace(s[k]) /\ (k # i => s[k] # "@")
        /\ \E d \in (i + 2)..(Len(s) - 1) : s[d] = "."

sanitizeEmailFaulty(email) == IF notString(email) THEN <<>> ELSE email.v
sanitizeEmail(email) ==
    IF notString(email) THEN <<>>
    ELSE IF emailRegexTest(email.v) THEN email.v ELSE <<>>

\* phone.replace(/[^\d\+\(\)\-\s]/g, '')
sanitizePhoneFaulty(phone) ==
    SelectSeq(TemplateString(phone),
              LAMBDA c : c \in Digits \cup {"+", "(", ")", "-"} \/ IsSpace(c))
sanitizePhone(phone) ==
    IF notString(phone) THEN <<>>
    ELSE SelectSeq(phone.v, LAMBDA c : c \in Digits \cup {"+", "(", ")", "-"} \/ IsSpace(c))

-----------------------------------------------------------------------------
(* new URL(s): the URL parser of the browser without a base URL, for the    *)
(* characters that occur in SanitizerInputs (no '%', '?', '#', '\', '[',    *)
(* no dot segments, no file: scheme).                                       *)

SchemeChars == Letters \cup Digits \cup {"+", "-", "."}

RECURSIVE lower(_)
lower(s) == IF s = <<>> THEN <<>> ELSE <<toLowerCase(Head(s))>> \o lower(Tail(s))

\* index of the ':' that ends the scheme, 0 when s does not start with one
IsSchemeEnd(s, p) == s[p] = ":" /\ \A k \in 2..(p - 1) : s[k] \in SchemeChars
SchemeEnd(s) ==
    IF s = <<>> \/ s[1] \notin Letters THEN 0
    ELSE IF \E p \in 2..Len(s) : IsSchemeEnd(s, p)
    THEN CHOOSE p \in 2..Len(s) : IsSchemeEnd(s, p)
    ELSE 0

SpecialSchemes == { <<"h", "t", "t", "p">>, <<"h", "t", "t", "p", "s">>,
                    <<"f", "t", "p">>, <<"w", "s">>, <<"w", "s", "s">> }

\* forbidden host code points
ForbiddenHost == {" ", "#", "/", ":", "<", ">", "?", "@", "[", "\\", "]", "^", "|"}

\* index of the first / last element of s that is in set cs, 0 when none
FirstIn(s, cs) ==
    IF \E k \in 1..Len(s) : s[k] \in cs
    THEN CHOOSE k \in 1..Len(s) : s[k] \in cs /\ \A j \in 1..(k - 1) : s[j] \notin cs
    ELSE 0
LastIn(s, cs) ==
    IF \E k \in 1..Len(s) : s[k] \in cs
    THEN CHOOSE k \in 1..Len(s) : s[k] \in cs /\ \A j \in (k + 1)..Len(s) : s[j] \notin cs
    ELSE 0

RECURSIVE SkipSlashes(_)
SkipSlashes(s) ==
    IF s # <<>> /\ s[1] \in {"/", "\\"} THEN SkipSlashes(Tail(s)) ELSE s

\* percent-encoding of the path and of the userinfo
encodePathChar(c) ==
    CASE c = " " -> <<"%", "2", "0">>
      [] c = "<" -> <<"%", "3", "C">>
      [] c = ">" -> <<"%", "3", "E">>
      [] OTHER -> <<c>>
encodeUserChar(c) ==
    CASE c = "=" -> <<"%", "3", "D">>
      [] c = "@" -> <<"%", "4", "0">>
      [] c = ":" -> <<"%", "3", "A">>
      [] OTHER -> encodePathChar(c)

RECURSIVE encodePath(_)
encodePath(s) == IF s = <<>> THEN <<>> ELSE encodePathChar(Head(s)) \o encodePath(Tail(s))
RECURSIVE encodeUser(_)
encodeUser(s) == IF s = <<>> THEN <<>> ELSE encodeUserChar(Head(s)) \o encodeUser(Tail(s))

\* 'user:password@' as serialised, empty when both parts are empty
Credentials(userinfo) ==
    LET c == FirstIn(userinfo, {":"})
        user == IF c = 0 THEN userinfo ELSE SubSeq(userinfo, 1, c - 1)
        pass == IF c = 0 THEN <<>> ELSE SubSeq(userinfo, c + 1, Len(userinfo))
    IN  IF user = <<>> /\ pass = <<>> THEN <<>>
        ELSE encodeUser(user)
             \o (IF pass = <<>> THEN <<>> ELSE <<":">> \o encodeUser(pass))
             \o <<"@">>

DefaultPort(scheme) ==
    CASE scheme = <<"h", "t", "t", "p">> -> <<"8", "0">>
      [] scheme = <<"h", "t", "t", "p", "s">> -> <<"4", "4", "3">>
      [] scheme = <<"f", "t", "p">> -> <<"2", "1">>
      [] OTHER -> <<>>

ParseFailure == [ok |-> FALSE]

\* scheme://authority/path: r is what follows the slashes
ParseAuthority(scheme, r, special) ==
    LET e == FirstIn(r, {"/", "\\", "?", "#"})
        authority == IF e = 0 THEN r ELSE SubSeq(r, 1, e - 1)
        path == IF e = 0 THEN <<>> ELSE SubSeq(r, e, Len(r))
        a == LastIn(authority, {"@"})
        userinfo == IF a = 0 THEN <<>> ELSE SubSeq(authority, 1, a - 1)
        hostport == SubSeq(authority, a + 1, Len(authority))
        c == FirstIn(hostport, {":"})
        host == IF c = 0 THEN hostport ELSE SubSeq(hostport, 1, c - 1)
        port == IF c = 0 THEN <<>> ELSE SubSeq(hostport, c + 1, Len(hostport))
    IN  IF \/ host = <<>> /\ (special \/ a # 0 \/ c # 0)
           \/ \E k \in 1..Len(host) : host[k] \in ForbiddenHost
           \/ \E k \in 1..Len(port) : port[k] \notin Digits
        THEN ParseFailure
        ELSE [ok |-> TRUE,
              protocol |-> scheme \o <<":">>,
              href |-> scheme \o <<":", "/", "/">> \o Credentials(userinfo)
                       \o (IF special THEN lower(host) ELSE host)
                       \o (IF port = <<>> \/ port = DefaultPort(scheme)
                           THEN <<>> ELSE <<":">> \o port)
                       \o (IF path = <<>> /\ special THEN <<"/">> ELSE encodePath(path))]

URL(s) ==
    LET t == trim(SelectSeq(s, LAMBDA c : c \notin {"\t", "\n", "\r"}))
        p == SchemeEnd(t)
    IN  IF p = 0 THEN ParseFailure
        ELSE LET scheme == lower(SubSeq(t, 1, p - 1))
                 rest == SubSeq(t, p + 1, Len(t))
             IN  IF scheme \in SpecialSchemes
                 THEN ParseAuthority(scheme, SkipSlashes(rest), TRUE)
                 ELSE IF Len(rest) >= 2 /\ rest[1] = "/" /\ rest[2] = "/"
                 THEN ParseAuthority(scheme, SubSeq(rest, 3, Len(rest)), FALSE)
                 ELSE [ok |-> TRUE, protocol |-> scheme \o <<":">>,
                       href |-> scheme \o <<":">> \o rest]

\* protocols accepted by sanitizeURL
allowedProtocolsFaulty ==
    { <<"h", "t", "t", "p", ":">>, <<"h", "t", "t", "p", "s", ":">>, <<"f", "t", "p", ":">> }
allowedProtocols == { <<"h", "t", "t", "p", ":">>, <<"h", "t", "t", "p", "s", ":">> }

sanitizeURL(url) ==
    IF notString(url) THEN <<>>
    ELSE LET parsed == URL(url.v)
         IN  IF ~parsed.ok THEN <<>>
             ELSE IF parsed.protocol \notin allowedProtocols THEN <<>>
             ELSE parsed.href

-----------------------------------------------------------------------------
(* script.js: generateQrCode.                                               *)

QrCodeFor == <<"Q", "R", " ", "c", "o", "d", "e", " ", "f", "o", "r", " ">>

\* the catch block: the fallback element
placeholder(url) ==
    [tag |-> "div", textContent |-> <<"Q", "R", " ", "C", "o", "d", "e">>,
     title |-> QrCodeFor \o TemplateString(url)]

\* the check of the URL: whether it throws 'Invalid URL provided', and the
\* sanitizedUrl handed to the encoder when it does not
checkedUrl(url, securityPresent) ==
    IF securityPresent
    THEN [ok |-> Len(sanitizeURL(url)) # 0, sanitizedUrl |-> Str(sanitizeURL(url))]
    ELSE [ok |-> URL(TemplateString(url)).ok, sanitizedUrl |-> url]

\* qrcodeLib: "undefined" when lib/qrcode.js is not loaded, "throws" when the
\* encoder or the canvas raises, "ok" otherwise
generateQrCode(url, securityPresent, qrcodeLib) ==
    LET checked == checkedUrl(url, securityPresent)
    IN  IF ~checked.ok THEN placeholder(url)
        ELSE IF qrcodeLib # "ok" THEN placeholder(url)
        ELSE [tag |-> "img", alt |-> QrCodeFor \o TemplateString(checked.sanitizedUrl)]

-----------------------------------------------------------------------------
(* Inputs of the pure functions.                                            *)

MaxFragments == 3

TextFragments ==
    { <<"<">>, <<">">>, <<"o", "n">>, <<"x">>, <<"=">>, <<" ">>, <<"@">>,
      <<"j", "a", "v", "a", "s", "c", "r", "i", "p", "t", ":">>,
      <<"h", "t", "t", "p", "s", ":">>, <<"/", "/">>, <<"a", ".", "b">> }

ImgOnerror == <<"<", "i", "m", "g", " ", "o", "n", "e", "r", "r", "o", "r", "=", "x", ">">>

\* a match of each pattern wrapped around the fragments of another one
NestedJavascript ==
    <<"j", "a">> \o <<"j", "a", "v", "a", "s", "c", "r", "i", "p", "t", ":">>
        \o <<"v", "a", "s", "c", "r", "i", "p", "t", ":">>

NestedHandler == <<"o">> \o <<"o", "n", "x", "=">> \o <<"n", "x", "=">>

NamedStrings ==
    { ImgOnerror,
      <<"h", "t", "t", "p", ":", "/", "/", "a", ".", "b">>,
      <<"H", "T", "T", "P", "S", ":", "/", "/", "A", ".", "B", "/", "x">>,
      <<"f", "t", "p", ":", "/", "/", "a", ".", "b">>,
      <<"m", "a", "i", "l", "t", "o", ":", "x", "@", "a", ".", "b">>,
      <<"d", "a", "t", "a", ":", "x">>,
      <<"(", "0", "2", ")", " ", "9", "-", "1", "x">>,
      <<"a", "&", "b">>,
      NestedJavascript, NestedHandler }

RECURSIVE Concatenations(_)
Concatenations(n) ==
    IF n = 0 THEN { <<>> }
    ELSE LET shorter == Concatenations(n - 1)
         IN  shorter \cup { s \o f : s \in shorter, f \in TextFragments }

Strings == Concatenations(MaxFragments) \cup NamedStrings

NonStrings == { Undefined, Null, Num(0), Num(42), Obj }

SanitizerInputs == NonStrings \cup { Str(s) : s \in Strings }

QrcodeLibs == {"ok", "undefined", "throws"}

-----------------------------------------------------------------------------
(* Raw datasets: entries of the `partners` array that may lack properties.  *)
(* A string property holds its characters; a missing property is a missing  *)
(* field of the record.                                                     *)

MaxEntries == 3

ValidEntry ==
    [name |-> <<"O", "r", "g">>, lat |-> Num(-34), lng |-> Num(151),
     community |-> "First Nations", languages |-> <<"English">>,
     description |-> [English |-> Str(<<"d", "e", "s", "c">>)],
     address |-> <<"1", " ", "S", "t">>, phone |-> <<"9", "3", "3", "0">>,
     email |-> <<"m", "@", "a", ".", "b">>,
     website |-> <<"h", "t", "t", "p", "s", ":", "/", "/", "a", ".", "b">>]

\* the entry without the properties of `fields`
Without(p, fields) == [f \in DOMAIN p \ fields |-> p[f]]

Hub == [ValidEntry EXCEPT !.name = <<"H", "u", "b">>, !.community = "Arts",
                          !.languages = <<"Italian", "English">>]

RawPool ==
    { ValidEntry,
      Hub,
      Without(ValidEntry, {"email"}),
      Without(Hub, {"description"}),
      Without(ValidEntry, {"languages"}),
      [Hub EXCEPT !.email = <<"m", "@", "a">>, !.website = <<"x">>, !.lat = Undefined],
      [ValidEntry EXCEPT !.name = <<"<", "O", "r", "g", ">">>, !.languages = <<>>],
      [Without(Hub, {"name"}) EXCEPT !.community = "Sport"],
      [ValidEntry EXCEPT !.name = <<"E", "q">>, !.lat = Num(0)] }

RawDatasets == UNION { [1..n -> RawPool] : n \in 0..MaxEntries }

-----------------------------------------------------------------------------
(* security-implementation.js: sanitizePartnerData.                         *)

StringFields == {"name", "address", "phone", "email", "website", "community"}

\* partner[field] as a JavaScript value
Prop(p, field) ==
    IF field \notin DOMAIN p THEN Undefined
    ELSE IF field \in StringFields THEN Str(p[field])
    ELSE IF field \in {"lat", "lng"} THEN p[field]
    ELSE Obj

\* Object.keys(partner.description) throws a TypeError when the entry has no
\* description
sanitizeThrows(ps) == \E i \in 1..Len(ps) : "description" \notin DOMAIN ps[i]

sanitizePartnerFaulty(p) ==
    [f \in {"name", "address", "phone", "email", "website", "description"} |->
        CASE f = "name" -> sanitizeText(Prop(p, "name"))
          [] f = "address" -> sanitizeText(Prop(p, "address"))
          [] f = "phone" -> sanitizePhone(Prop(p, "phone"))
          [] f = "email" -> sanitizeEmail(Prop(p, "email"))
          [] f = "website" -> sanitizeURL(Prop(p, "website"))
          [] f = "description" ->
                [lang \in DOMAIN p.description |->
                    Str(sanitizeText(p.description[lang]))]]

\* the object literal built for one partner
sanitizePartner(p) ==
    [f \in DOMAIN p \cup {"name", "address", "phone", "email", "website"} |->
        CASE f = "name" -> sanitizeText(Prop(p, "name"))
          [] f = "address" -> sanitizeText(Prop(p, "address"))
          [] f = "phone" -> sanitizePhone(Prop(p, "phone"))
          [] f = "email" -> sanitizeEmail(Prop(p, "email"))
          [] f = "website" -> sanitizeURL(Prop(p, "website"))
          [] f = "description" ->
                [lang \in DOMAIN p.description |->
                    Str(sanitizeText(p.description[lang]))]
          [] OTHER -> p[f]]

\* partners.map(...), for a dataset on which it does not throw
sanitizePartnerData(ps) == [i \in 1..Len(ps) |-> sanitizePartner(ps[i])]

-----------------------------------------------------------------------------
(* script.js: validatePartnerData.  A message is the record of its parts.   *)

validCommunities ==
    <<"First Nations", "Arts", "Youth", "Health & Wellbeing",
      "Carers Support Services", "Children & Families", "Community Support",
      "Disability Services", "Domestic Violence", "Food & Emergency Support",
      "Government Departments", "LGBTQIA+", "Multicultural">>

requiredFieldsFaulty ==
    <<"name", "lat", "lng", "community", "languages", "description", "address",
      "phone", "website">>
requiredFields ==
    <<"name", "lat", "lng", "community", "languages", "description", "address",
      "phone", "email", "website">>

Unknown == <<"U", "n", "k", "n", "o", "w", "n">>

\* `Partner ${index} (${partner.name || 'Unknown'}): Missing ${field}`
MissingError(p, index, field) ==
    [index |-> index, name |-> TemplateString(Or(Prop(p, "name"), Str(Unknown))),
     kind |-> "Missing", field |-> field]

\* `Partner ${index} (${partner.name}): ...`
EntryMessage(p, index, kind) ==
    [index |-> index, name |-> TemplateString(Prop(p, "name")), kind |-> kind]

\* requiredFields.forEach: the errors for the fields from position k on
RECURSIVE MissingFrom(_, _, _)
MissingFrom(p, index, k) ==
    IF k > Len(requiredFields) THEN <<>>
    ELSE (IF ~Truthy(Prop(p, requiredFields[k]))
          THEN <<MissingError(p, index, requiredFields[k])>> ELSE <<>>)
         \o MissingFrom(p, index, k + 1)

If(cond, item) == IF cond THEN <<item>> ELSE <<>>

\* the errors pushed for one partner, in order
EntryErrors(p, index) ==
    MissingFrom(p, index, 1)
    \o If(Prop(p, "lat").t # "number" \/ Prop(p, "lng").t # "number",
          EntryMessage(p, index, "Invalid coordinates"))
    \o If("community" \notin DOMAIN p \/ ~Includes(validCommunities, p.community),
          [index |-> index, name |-> TemplateString(Prop(p, "name")),
           kind |-> "Invalid community",
           community |-> TemplateString(Prop(p, "community"))])
    \o If(Truthy(Prop(p, "email")) /\ ~emailRegexTest(p.email),
          EntryMessage(p, index, "Invalid email format"))
    \o If(Truthy(Prop(p, "website")) /\ ~URL(p.website).ok,
          EntryMessage(p, index, "Invalid website URL"))
    \o If("description" \notin DOMAIN p \/ ~Truthy(Get(p.description, "English")),
          EntryMessage(p, index, "Missing English description"))

\* the warning pushed for one partner
EntryWarnings(p, index) ==
    If("languages" \notin DOMAIN p \/ Len(p.languages) = 0,
       EntryMessage(p, index, "No languages specified"))

\* partners.forEach: errors and warnings of the entries from position i on
RECURSIVE ErrorsFrom(_, _)
ErrorsFrom(ps, i) ==
    IF i > Len(ps) THEN <<>> ELSE EntryErrors(ps[i], i - 1) \o ErrorsFrom(ps, i + 1)

RECURSIVE WarningsFrom(_, _)
WarningsFrom(ps, i) ==
    IF i > Len(ps) THEN <<>> ELSE EntryWarnings(ps[i], i - 1) \o WarningsFrom(ps, i + 1)

\* names.indexOf(name), as a position from 1
IndexOf(arr, x) == CHOOSE k \in 1..Len(arr) : arr[k] = x /\ \A j \in 1..(k - 1) : arr[j] # x

\* names.filter((name, index) => names.indexOf(name) !== index)
RECURSIVE DuplicatesFrom(_, _)
DuplicatesFrom(names, i) ==
    IF i > Len(names) THEN <<>>
    ELSE If(IndexOf(names, names[i]) # i, names[i]) \o DuplicatesFrom(names, i + 1)

\* [...new Set(arr)]: the first occurrences, in order
RECURSIVE UniqueFrom(_, _)
UniqueFrom(arr, i) ==
    IF i > Len(arr) THEN <<>>
    ELSE If(IndexOf(arr, arr[i]) = i, arr[i]) \o UniqueFrom(arr, i + 1)

uniqueFaulty(arr) == arr
unique(arr) == UniqueFrom(arr, 1)

\* an element as Array.prototype.join writes it: undefined and null as ''
JoinString(x) == IF x.t \in {"undefined", "null"} THEN <<>> ELSE TemplateString(x)

\* `Duplicate names found: ${[...new Set(duplicates)].join(', ')}`
DuplicateWarning(duplicates) ==
    [kind |-> "Duplicate names found",
     names |-> [k \in 1..Len(unique(duplicates)) |-> JoinString(unique(duplicates)[k])]]

validatePartnerData(ps) ==
    LET names == [i \in 1..Len(ps) |-> Prop(ps[i], "name")]
        duplicates == DuplicatesFrom(names, 1)
        errors == ErrorsFrom(ps, 1)
        warnings == WarningsFrom(ps, 1)
                    \o If(Len(duplicates) > 0, DuplicateWarning(duplicates))
    IN  [errors |-> errors, warnings |-> warnings, isValid |-> Len(errors) = 0]

-----------------------------------------------------------------------------
(* The pure functions as operations: one call per behaviour, which records  *)
(* the function, its environment and what it returned.                      *)

FnInit ==
    /\ \/ input \in SanitizerInputs /\ dataset = <<>>
       \/ input = Undefined /\ dataset \in RawDatasets
    /\ call = [fn |-> "none"]

CallSanitizeText ==
    /\ call.fn = "none"
    /\ call' = [fn |-> "sanitizeText", result |-> sanitizeText(input)]
    /\ UNCHANGED <<input, dataset>>
    /\ UNCHANGED <<pageVars, swVars, bootVars, noticeVars>>

CallSanitizeURL ==
    /\ call.fn = "none"
    /\ call' = [fn |-> "sanitizeURL", result |-> sanitizeURL(input)]
    /\ UNCHANGED <<input, dataset>>
    /\ UNCHANGED <<pageVars, swVars, bootVars, noticeVars>>

CallSanitizeEmail ==
    /\ call.fn = "none"
    /\ call' = [fn |-> "sanitizeEmail", result |-> sanitizeEmail(input)]
    /\ UNCHANGED <<input, dataset>>
    /\ UNCHANGED <<pageVars, swVars, bootVars, noticeVars>>

CallSanitizePhone ==
    /\ call.fn = "none"
    /\ call' = [fn |-> "sanitizePhone", result |-> sanitizePhone(input)]
    /\ UNCHANGED <<input, dataset>>
    /\ UNCHANGED <<pageVars, swVars, bootVars, noticeVars>>

CallSanitizeHTML ==
    /\ call.fn = "none"
    /\ call' = [fn |-> "sanitizeHTML", result |-> sanitizeHTML(input)]
    /\ UNCHANGED <<input, dataset>>
    /\ UNCHANGED <<pageVars, swVars, bootVars, noticeVars>>

\* security.sanitizePartnerData(partners): returns the cleaned copy or throws
CallSanitizePartnerData ==
    /\ call.fn = "none"
    /\ call' = IF sanitizeThrows(dataset)
               THEN [fn |-> "sanitizePartnerData", threw |-> TRUE]
               ELSE [fn |-> "sanitizePartnerData", threw |-> FALSE,
                     result |-> sanitizePartnerData(dataset)]
    /\ UNCHANGED <<input, dataset>>
    /\ UNCHANGED <<pageVars, swVars, bootVars, noticeVars>>

CallValidatePartnerData ==
    /\ call.fn = "none"
    /\ call' = [fn |-> "validatePartnerData", result |-> validatePartnerData(dataset)]
    /\ UNCHANGED <<input, dataset>>
    /\ UNCHANGED <<pageVars, swVars, bootVars, noticeVars>>

CallGenerateQrCode ==
    /\ call.fn = "none"
    /\ \E securityPresent \in BOOLEAN, qrcodeLib \in QrcodeLibs :
        call' = [fn |-> "generateQrCode", security |-> securityPresent,
                 qrcode |-> qrcodeLib,
                 result |-> generateQrCode(input, securityPresent, qrcodeLib)]
    /\ UNCHANGED <<input, dataset>>
    /\ UNCHANGED <<pageVars, swVars, bootVars, noticeVars>>

-----------------------------------------------------------------------------
(* script.js: the DOMContentLoaded listener from its first line, over raw   *)
(* datasets.  Its first part (security manager, sanitization, validation)   *)
(* is SanitizeAndValidate; the rest is DOMContentLoaded above.              *)

MaxRawPartners == 2

\* `validation` before validatePartnerData has run
NoValidation == [errors |-> <<>>, warnings |-> <<>>]

\* raw entries that have a name: well-formed ones, one with a malformed email
\* and website, one without description and one without languages
BootPool ==
    { ValidEntry,
      Hub,
      [Hub EXCEPT !.email = <<"m", "@", "a">>, !.website = <<"x">>],
      Without(Hub, {"description"}),
      Without(ValidEntry, {"languages"}) }

BootDatasets == UNION { [1..n -> BootPool] : n \in 0..MaxRawPartners }

categories ==
    <<"community", "health", "arts", "youth", "family", "support", "cultural",
      "disability", "emergency", "government">>

BootInit ==
    /\ pc = "start"
    /\ partners \in BootDatasets
    /\ sanitizedPartners = <<>>
    /\ selectedLanguage = "English"
    /\ selectedCommunity = "First Nations"
    /\ markerLayer = [defined |-> FALSE, layers |-> <<>>]
    /\ organisationList = <<>>
    /\ listHeader = "Service Directory"
    /\ uiLanguage = "English"
    /\ activeLanguage = "English"
    /\ activeCommunity = "First Nations"
    /\ security = "unset"
    /\ validation = NoValidation
    /\ uncaught = FALSE
    /\ currentIndex = 0

\* lines 56-515 of the listener: the security manager is constructed or not;
\* with it the dataset is sanitized, which throws out of the listener on an
\* entry without description; then the dataset is validated
SanitizeAndValidate ==
    /\ pc = "start"
    /\ \E securityPresent \in BOOLEAN :
        /\ security' = IF securityPresent THEN "present" ELSE "absent"
        /\ IF securityPresent /\ sanitizeThrows(partners)
           THEN /\ sanitizedPartners' = partners
                /\ pc' = "aborted"
                /\ uncaught' = TRUE
                /\ UNCHANGED validation
           ELSE /\ sanitizedPartners' = IF securityPresent
                                        THEN sanitizePartnerData(partners)
                                        ELSE partners
                /\ validation' = validatePartnerData(sanitizedPartners')
                /\ pc' = "load"
                /\ UNCHANGED uncaught
    /\ UNCHANGED <<selectedLanguage, selectedCommunity, markerLayer, organisationList,
                   listHeader, uiLanguage, activeLanguage, activeCommunity>>
    /\ UNCHANGED <<partners, currentIndex>>
    /\ UNCHANGED <<swVars, fnVars, noticeVars>>

\* the setInterval callback of startScrollingCategory
ScrollingCategoryTick ==
    /\ pc = "ready"
    /\ currentIndex' = (currentIndex + 1) % Len(categories)
    /\ UNCHANGED <<partners, security, validation, uncaught>>
    /\ UNCHANGED <<pageVars, swVars, fnVars, noticeVars>>

-----------------------------------------------------------------------------
(* script.js: the global error handlers and showUserFriendlyError.  A       *)
(* notice is identified by the order of its creation.                       *)

MaxNotices == 4

ErrorEventTypes == {"error", "unhandledrejection"}

\* the message each listener passes to showUserFriendlyError
noticeMessage(type) ==
    IF type = "error"
    THEN "Something went wrong. Please refresh the page."
    ELSE "Unable to load some resources. Please check your connection."

\* errorDiv.remove(): the notice of that id leaves the page, if it is on it
removeFaulty(onPage, id) == onPage
remove(onPage, id) == { n \in onPage : n.id # id }

NoticeInit ==
    /\ handlersRegistered = FALSE
    /\ notices = {}
    /\ created = 0
    /\ timers = {}

\* window.addEventListener('error', ...) and ('unhandledrejection', ...)
RegisterHandlers ==
    /\ ~handlersRegistered
    /\ handlersRegistered' = TRUE
    /\ UNCHANGED <<notices, created, timers>>
    /\ UNCHANGED <<pageVars, swVars, fnVars, bootVars>>

\* an 'error' or 'unhandledrejection' event reaches its listener, which calls
\* showUserFriendlyError: the notice is appended to document.body and its
\* 10 s timer is started
ErrorEvent ==
    /\ handlersRegistered
    /\ created < MaxNotices
    /\ \E type \in ErrorEventTypes :
        notices' = notices \cup {[id |-> created + 1, message |-> noticeMessage(type)]}
    /\ timers' = timers \cup {created + 1}
    /\ created' = created + 1
    /\ UNCHANGED handlersRegistered
    /\ UNCHANGED <<pageVars, swVars, fnVars, bootVars>>

\* click on the notice's button: onclick="this.parentElement.remove()"
Dismiss(id) ==
    /\ \E n \in notices : n.id = id
    /\ notices' = remove(notices, id)
    /\ UNCHANGED <<handlersRegistered, created, timers>>
    /\ UNCHANGED <<pageVars, swVars, fnVars, bootVars>>

\* the setTimeout callback: () => errorDiv.remove()
Expire(id) ==
    /\ id \in timers
    /\ timers' = timers \ {id}
    /\ notices' = remove(notices, id)
    /\ UNCHANGED <<handlersRegistered, created>>
    /\ UNCHANGED <<pageVars, swVars, fnVars, bootVars>>

-----------------------------------------------------------------------------
(* Specifications.                                                          *)

\* the parts of the state a specification does not exercise
FnIdle ==
    /\ input = Undefined
    /\ dataset = <<>>
    /\ call = [fn |-> "none"]

BootIdle ==
    /\ partners = <<>>
    /\ security = "unset"
    /\ validation = NoValidation
    /\ uncaught = FALSE
    /\ currentIndex = 0

NoticeIdle ==
    /\ handlersRegistered = FALSE
    /\ notices = {}
    /\ created = 0
    /\ timers = {}

Init == PageInit /\ SWIdle /\ FnIdle /\ BootIdle /\ NoticeIdle

Next ==
    \/ DOMContentLoaded
    \/ LanguageClick
    \/ CommunityClick
    \/ ClearAllClick

Spec == Init /\ [][Next]_vars

InitSW == PageIdle /\ SWInit /\ FnIdle /\ BootIdle /\ NoticeIdle

NextSW ==
    \/ InstallEvent
    \/ InstallOpen
    \/ InstallFetchOk
    \/ InstallFetchFails
    \/ InstallAddAll
    \/ InstallSkipWaiting
    \/ ActivateEvent
    \/ ActivateKeys
    \/ ActivateDelete
    \/ ActivateClaim
    \/ FetchMatch
    \/ FetchNetworkOk
    \/ FetchNetworkFails

SpecSW == InitSW /\ [][NextSW]_vars

InitFn == PageIdle /\ SWIdle /\ FnInit /\ BootIdle /\ NoticeIdle

NextFn ==
    \/ CallSanitizeText
    \/ CallSanitizeURL
    \/ CallSanitizeEmail
    \/ CallSanitizePhone
    \/ CallSanitizeHTML
    \/ CallGenerateQrCode
    \/ CallSanitizePartnerData
    \/ CallValidatePartnerData

SpecFn == InitFn /\ [][NextFn]_vars

InitBoot == BootInit /\ SWIdle /\ FnIdle /\ NoticeIdle

NextBoot ==
    \/ SanitizeAndValidate
    \/ DOMContentLoaded
    \/ LanguageClick
    \/ CommunityClick
    \/ ClearAllClick
    \/ ScrollingCategoryTick

SpecBoot == InitBoot /\ [][NextBoot]_vars

InitNotices == PageIdle /\ SWIdle /\ FnIdle /\ BootIdle /\ NoticeInit

NextNotices ==
    \/ RegisterHandlers
    \/ ErrorEvent
    \/ \E id \in 1..MaxNotices : Dismiss(id)
    \/ \E id \in 1..MaxNotices : Expire(id)

\* a timer that was started fires: the page stays open and its event loop runs
SpecNotices ==
    /\ InitNotices
    /\ [][NextNotices]_vars
    /\ \A id \in 1..MaxNotices : WF_vars(Expire(id))

-----------------------------------------------------------------------------
(* Properties of the page.                                                  *)

\* updateDisplay has run past its guard
Rendered == pc = "ready" /\ markerLayer.defined

Elems(arr) == { arr[k] : k \in 1..Len(arr) }

\* the entries that have a card in the list
CardPartners ==
    { organisationList[k].partner :
        k \in { j \in 1..Len(organisationList) : organisationList[j].kind = "card" } }

\* the entries that have a marker on the layer
MarkerPartners == { markerLayer.layers[k].partner : k \in 1..Len(markerLayer.layers) }

\* the inclusion rule, stated on sets
Projection(language, community) ==
    { i \in 1..Len(sanitizedPartners) :
        /\ sanitizedPartners[i].community = community
        /\ \/ language \in Elems(sanitizedPartners[i].languages)
           \/ "English" \in Elems(sanitizedPartners[i].languages) }

\* C1: the entries rendered are exactly those of the selected category whose
\* languages contain the selected language or English.
C1_InclusionRule ==
    Rendered => CardPartners = Projection(selectedLanguage, selectedCommunity)

\* an entry shown only for its own language is rendered next to one left out
C1_Witness ==
    /\ Rendered
    /\ selectedLanguage = "Italian"
    /\ \E i \in CardPartners : "English" \notin Elems(sanitizedPartners[i].languages)
    /\ \E i \in 1..Len(sanitizedPartners) : i \notin CardPartners

\* C2: every entry visible under English in the current category is visible
\* under every selected language, and a step that keeps the category never
\* removes such an entry from the list.
C2_LanguageMonotone ==
    /\ [](Rendered => Projection("English", selectedCommunity) \subseteq CardPartners)
    /\ [][(Rendered /\ selectedCommunity' = selectedCommunity)
            => (CardPartners \cap Projection("English", selectedCommunity))
                 \subseteq CardPartners']_vars

\* an English-only entry is on display while another language is selected
C2_Witness ==
    /\ Rendered
    /\ selectedLanguage \notin {"English", "Italian"}
    /\ \E i \in CardPartners : sanitizedPartners[i].languages = <<"English">>

\* C3 as stated: every entry of the selected category is displayed, whatever
\* its languages list contains.
C3_Original ==
    Rendered =>
        \A i \in 1..Len(sanitizedPartners) :
            sanitizedPartners[i].community = selectedCommunity => i \in CardPartners

\* C3 amended: English is an accepted match for the entries whose languages
\* list contains it; an entry of the selected category whose list lacks
\* English is displayed exactly when the list contains the selected language.
C3_BaselineOnlyWhenListed ==
    Rendered =>
        \A i \in 1..Len(sanitizedPartners) :
            sanitizedPartners[i].community = selectedCommunity =>
                LET ls == Elems(sanitizedPartners[i].languages)
                IN  /\ "English" \in ls => i \in CardPartners
                    /\ "English" \notin ls =>
                          (i \in CardPartners <=> selectedLanguage \in ls)

\* an entry of the selected category without English is left out while an
\* English one is shown
C3_Witness ==
    /\ Rendered
    /\ selectedLanguage = "Greek"
    /\ \E i \in 1..Len(sanitizedPartners) :
          /\ sanitizedPartners[i].community = selectedCommunity
          /\ sanitizedPartners[i].languages = <<"Italian">>
          /\ i \notin CardPartners
    /\ CardPartners # {}

\* coordinates count as present the way the renderer tests them
CoordinatesPresent(p) == Truthy(p.lat) /\ Truthy(p.lng)

CardsOf(i) ==
    { k \in 1..Len(organisationList) :
        organisationList[k].kind = "card" /\ organisationList[k].partner = i }

MarkersOf(i) ==
    { k \in 1..Len(markerLayer.layers) : markerLayer.layers[k].partner = i }

NoServicesText(language) ==
    CASE language = "Italian" -> "Nessun servizio trovato per questa categoria."
      [] language = "Greek" -> "Δεν βρέθηκαν υπηρεσίες για αυτήν την κατηγορία."
      [] OTHER -> "No services found for this category."

\* C5: when nothing matches, the marker layer is empty and the list is the
\* single localized 'noServicesFound' item.
C5_NoResults ==
    (Rendered /\ Projection(selectedLanguage, selectedCommunity) = {}) =>
        /\ markerLayer.layers = <<>>
        /\ organisationList =
             << [kind |-> "noResults", text |-> NoServicesText(selectedLanguage)] >>

\* nothing matches a non-empty dataset under a language tag without table
C5_Witness ==
    /\ Rendered
    /\ selectedLanguage = "Tagalog"
    /\ Len(sanitizedPartners) > 0
    /\ Projection(selectedLanguage, selectedCommunity) = {}
    /\ Len(organisationList) = 1
    /\ organisationList[1].kind = "noResults"

\* C6: cards appear in dataset order.
C6_DatasetOrder ==
    Rendered =>
        \A k1, k2 \in 1..Len(organisationList) :
            (organisationList[k1].kind = "card" /\ organisationList[k2].kind = "card")
              => (k1 < k2 <=> organisationList[k1].partner < organisationList[k2].partner)

\* two cards are on display
C6_Witness ==
    /\ Rendered
    /\ Cardinality(CardPartners) >= 2

\* the description the claim names: the selected language's when present and
\* non-empty, otherwise the English one (nothing when that is absent too)
ExpectedDescription(p, language) ==
    IF language \in DOMAIN p.description /\ p.description[language].v # ""
    THEN p.description[language].v
    ELSE IF "English" \in DOMAIN p.description THEN p.description["English"].v ELSE ""

\* C7: card and popup both show the selected language's description when
\* present, else the English one.
C7_DescriptionFallback ==
    Rendered =>
        /\ \A k \in 1..Len(organisationList) :
              organisationList[k].kind = "card" =>
                organisationList[k].description =
                  ExpectedDescription(sanitizedPartners[organisationList[k].partner],
                                      selectedLanguage)
        /\ \A m \in 1..Len(markerLayer.layers) :
              /\ markerLayer.layers[m].description =
                   ExpectedDescription(sanitizedPartners[markerLayer.layers[m].partner],
                                       selectedLanguage)
              /\ \A k \in CardsOf(markerLayer.layers[m].partner) :
                    organisationList[k].description = markerLayer.layers[m].description

\* under Italian, one marker shows an Italian description and another falls
\* back to English
C7_Witness ==
    /\ Rendered
    /\ selectedLanguage = "Italian"
    /\ \E m \in 1..Len(markerLayer.layers) :
          markerLayer.layers[m].description = "desc it A"
    /\ \E m \in 1..Len(markerLayer.layers) :
          markerLayer.layers[m].description = "desc en B"

-----------------------------------------------------------------------------
(* Properties of the service worker.                                        *)

\* the URLs stored in the cache of that name (none when it does not exist)
UrlsOf(store, name) == UNION { store[k].urls : k \in { j \in 1..Len(store) : store[j].name = name } }

\* a step that removes no cache and no entry of a cache
NoCacheLoss ==
    \A k \in 1..Len(caches) :
        /\ k <= Len(caches')
        /\ caches'[k].name = caches[k].name
        /\ caches[k].urls \subseteq caches'[k].urls

\* C8: skipWaiting is called only with every asset of STATIC_ASSETS stored in
\* the cache CACHE_NAME; a failed install ends the worker with skipWaiting and
\* the activate cleanup never run, and no step up to the end of install
\* removes a cache or an entry of a cache.
C8_InstallAllOrNothing ==
    /\ [](skipWaitingCalled =>
            /\ CACHE_NAME \in cacheNames(caches)
            /\ StaticAssetSet \subseteq UrlsOf(caches, CACHE_NAME))
    /\ [](swState = "redundant" =>
            ~skipWaitingCalled /\ ~clientsClaimed /\ keysResult = {} /\ toDelete = {})
    /\ [][(swState # "redundant")]_vars
    /\ [][(swState \in {"parsed", "installing"} => NoCacheLoss)]_vars

\* an install has failed while an older cache version holds entries
C8_Witness ==
    /\ swState = "redundant"
    /\ UrlsOf(caches, "community-resources-v0") = {"/index.html", "/legacy.js"}
    /\ UrlsOf(caches, CACHE_NAME) = {}
    /\ CACHE_NAME \in cacheNames(caches)

\* a step that leaves the cache CACHE_NAME, when it exists, as it is
CurrentCacheUntouched ==
    CACHE_NAME \in cacheNames(caches) =>
        /\ CACHE_NAME \in cacheNames(caches')
        /\ UrlsOf(caches', CACHE_NAME) = UrlsOf(caches, CACHE_NAME)

\* C9: once activate has resolved only the cache CACHE_NAME is left, the
\* activate handler never changes that cache, and clients.claim is called
\* only when no stale-cache deletion is outstanding.
C9_ActivateCleans ==
    /\ [](swState = "activated" => cacheNames(caches) \subseteq {CACHE_NAME})
    /\ [](clientsClaimed =>
            toDelete = {} /\ cacheNames(caches) \cap keysResult \subseteq {CACHE_NAME})
    /\ [][(swState = "activating" => CurrentCacheUntouched)]_vars

\* activate has resolved after finding three caches, two of them stale, and
\* the current cache still holds an entry it had before this install
C9_Witness ==
    /\ swState = "activated"
    /\ clientsClaimed
    /\ Cardinality(keysResult) = 3
    /\ cacheNames(caches) = {CACHE_NAME}
    /\ "/legacy.js" \in UrlsOf(caches, CACHE_NAME)

\* C10: a request with a cached response is answered with that response and
\* without a network request; the network is used only on a miss, and its
\* response is the answer.
C10_CacheFirst ==
    fetchEvent.phase # "none" =>
        LET cached == \E k \in 1..Len(caches) : fetchEvent.url \in caches[k].urls
        IN  /\ cached =>
                /\ fetchEvent.phase = "done"
                /\ ~fetchEvent.network
                /\ fetchEvent.response.url = fetchEvent.url
                /\ fetchEvent.url \in UrlsOf(caches, fetchEvent.response.from)
            /\ fetchEvent.network => ~cached
            /\ fetchEvent.networkResult = "ok" =>
                fetchEvent.response = [from |-> "network", url |-> fetchEvent.url]

\* a request has been answered from the cache
C10_Witness ==
    /\ fetchEvent.phase = "done"
    /\ fetchEvent.url = "/script.js"
    /\ fetchEvent.response = [from |-> CACHE_NAME, url |-> "/script.js"]
    /\ ~fetchEvent.network

\* C11: a document request that misses the cache and whose network fetch
\* fails is answered by the activated worker with the cached '/index.html';
\* it never ends without a response.
C11_OfflineFallback ==
    /\ (fetchEvent.phase # "none" /\ fetchEvent.networkResult = "failed"
          /\ fetchEvent.destination = "document") =>
            /\ fetchEvent.phase = "done"
            /\ fetchEvent.response # NoResponse
            /\ fetchEvent.response.url = "/index.html"
            /\ "/index.html" \in UrlsOf(caches, fetchEvent.response.from)
    /\ swState = "activated" => "/index.html" \in UrlsOf(caches, CACHE_NAME)

\* an offline navigation to a page that is not cached got the root document
C11_Witness ==
    /\ fetchEvent.phase = "done"
    /\ fetchEvent.destination = "document"
    /\ fetchEvent.url = "/tiles/11/1.png"
    /\ fetchEvent.networkResult = "failed"
    /\ fetchEvent.response = [from |-> CACHE_NAME, url |-> "/index.html"]

-----------------------------------------------------------------------------
(* Properties of the sanitizer and of generateQrCode.                       *)

\* C14: sanitizeURL returns a non-empty string only for a string that parses
\* as a URL of scheme http or https; for every other scheme, for unparseable
\* strings and for non-strings it returns the empty string.
C14_SanitizeURLHttpOnly ==
    call.fn = "sanitizeURL" =>
        LET accepted == /\ input.t = "string"
                        /\ URL(input.v).ok
                        /\ URL(input.v).protocol
                             \in { <<"h", "t", "t", "p", ":">>, <<"h", "t", "t", "p", "s", ":">> }
        IN  /\ Len(call.result) # 0 => accepted
            /\ ~accepted => call.result = <<>>

\* sanitizeURL has refused an ftp: URL that parses
C14_Witness ==
    /\ call.fn = "sanitizeURL"
    /\ input = Str(<<"f", "t", "p", ":", "/", "/", "a", ".", "b">>)
    /\ URL(input.v).ok
    /\ call.result = <<>>

\* C15: the output of sanitizeText on a string contains neither '<' nor '>',
\* and on '<img onerror=x>' it does not contain 'onerror=' either.
C15_SanitizeTextStripsAngles ==
    (call.fn = "sanitizeText" /\ input.t = "string") =>
        /\ ~Contains(call.result, <<"<">>)
        /\ ~Contains(call.result, <<">">>)
        /\ input.v = ImgOnerror =>
              ~Contains(call.result, <<"o", "n", "e", "r", "r", "o", "r", "=">>)

\* sanitizeText has turned '<img onerror=x>' into 'img x'
C15_Witness ==
    /\ call.fn = "sanitizeText"
    /\ input = Str(ImgOnerror)
    /\ call.result = <<"i", "m", "g", " ", "x">>

SanitizerNames ==
    {"sanitizeText", "sanitizeURL", "sanitizeEmail", "sanitizePhone", "sanitizeHTML"}

\* a JavaScript string: a finite sequence of characters
IsString(s) == DOMAIN s = 1..Len(s) /\ \A k \in 1..Len(s) : Len(s[k]) = 1

\* C16: each of the five sanitizers returns a string for every input value,
\* the empty string and non-strings included, and returns the empty string
\* for every input that is not a string.
C16_SanitizersTotal ==
    call.fn \in SanitizerNames =>
        /\ IsString(call.result)
        /\ input.t # "string" => call.result = <<>>

\* sanitizePhone has been given the number 42 and returned ''
C16_Witness ==
    /\ call.fn = "sanitizePhone"
    /\ input = Num(42)
    /\ call.result = <<>>

\* C13: generateQrCode returns to its caller for every input: a placeholder
\* whose title holds the raw URL when the sanitized URL is empty, the QR
\* library is missing or the encoding fails, and otherwise an image whose
\* alt text holds the sanitized URL.
C13_QrPlaceholderOrImage ==
    call.fn = "generateQrCode" =>
        IF Len(sanitizeURL(input)) = 0 \/ call.qrcode # "ok"
        THEN /\ call.result.tag = "div"
             /\ Contains(call.result.title, TemplateString(input))
        ELSE /\ call.result.tag = "img"
             /\ Contains(call.result.alt, sanitizeURL(input))

-----------------------------------------------------------------------------
(* Properties of validatePartnerData.                                       *)

\* the entry has no email and the validator has nothing to report on it once
\* an email is supplied
LacksOnlyEmail(p) ==
    /\ "email" \notin DOMAIN p
    /\ EntryErrors([f \in DOMAIN p \cup {"email"} |->
                       IF f = "email" THEN ValidEntry.email ELSE p[f]], 0) = <<>>

ErrorsOfIndex(result, index) == SelectSeq(result.errors, LAMBDA e : e.index = index)

\* C17: an entry that lacks only its email gets exactly one error, naming its
\* index, its name and the field 'email', and isValid is then false; isValid
\* is true exactly when the errors list is empty.
C17_MissingEmailOneError ==
    call.fn = "validatePartnerData" =>
        /\ call.result.isValid <=> call.result.errors = <<>>
        /\ \A i \in 1..Len(dataset) :
              LacksOnlyEmail(dataset[i]) =>
                /\ ErrorsOfIndex(call.result, i - 1)
                     = << [index |-> i - 1, name |-> dataset[i].name,
                           kind |-> "Missing", field |-> "email"] >>
                /\ ~call.result.isValid

\* a valid entry followed by one without email: the only error is on entry 1
C17_Witness ==
    /\ call.fn = "validatePartnerData"
    /\ dataset = <<ValidEntry, Without(ValidEntry, {"email"})>>
    /\ Len(call.result.errors) = 1
    /\ call.result.errors[1].index = 1
    /\ call.result.errors[1].field = "email"

\* the values of `name` held by two or more entries
DuplicatedNames(ps) ==
    { Prop(ps[i], "name") : i \in { k \in 1..Len(ps) :
        \E j \in 1..Len(ps) : j # k /\ Prop(ps[j], "name") = Prop(ps[k], "name") } }

DuplicateWarnings(result) ==
    SelectSeq(result.warnings, LAMBDA w : w.kind = "Duplicate names found")

\* C18: at most one duplicate-name warning is emitted, exactly one iff some
\* name is held by two or more entries; it lists each duplicated name once;
\* and the errors are those of the entries taken one by one, so a dataset of
\* valid entries stays valid when names repeat.
C18_OneDuplicateWarning ==
    call.fn = "validatePartnerData" =>
        LET ws == DuplicateWarnings(call.result)
        IN  /\ Len(ws) <= 1
            /\ Len(ws) = 1 <=> DuplicatedNames(dataset) # {}
            /\ Len(ws) = 1 =>
                  /\ Len(ws[1].names) = Cardinality(DuplicatedNames(dataset))
                  /\ { ws[1].names[k] : k \in 1..Len(ws[1].names) }
                       = { JoinString(n) : n \in DuplicatedNames(dataset) }
            /\ \A e \in { call.result.errors[k] : k \in 1..Len(call.result.errors) } :
                  /\ e.kind # "Duplicate names found"
                  /\ Includes(EntryErrors(dataset[e.index + 1], e.index), e)
            /\ (\A i \in 1..Len(dataset) : EntryErrors(dataset[i], i - 1) = <<>>)
                  => call.result.isValid

\* three entries named 'Org': one warning that lists 'Org' once
C18_Witness ==
    /\ call.fn = "validatePartnerData"
    /\ dataset = <<ValidEntry, Without(ValidEntry, {"email"}),
                   Without(ValidEntry, {"languages"})>>
    /\ DuplicateWarnings(call.result)
         = << [kind |-> "Duplicate names found", names |-> << <<"O", "r", "g">> >>] >>

-----------------------------------------------------------------------------
(* Properties of startup and of the filter state.                           *)

\* C12: for any dataset, entries with a missing required field included,
\* startup gets through sanitization and validation and reaches updateDisplay,
\* and no render ends in an uncaught exception.
C12_DataErrorsNotFatal ==
    /\ pc # "aborted"
    /\ pc \in {"load", "ready"} => validation # NoValidation
    /\ ~uncaught

FilterState == <<selectedLanguage, selectedCommunity>>

FilterStateFrame ==
    /\ LanguageClick =>
          /\ selectedLanguage' \in LanguageButtons
          /\ selectedLanguage' = activeLanguage'
          /\ selectedCommunity' = selectedCommunity
    /\ CommunityClick =>
          /\ selectedCommunity' \in CommunityButtons
          /\ selectedCommunity' = activeCommunity'
          /\ selectedLanguage' = selectedLanguage
    /\ ClearAllClick =>
          /\ selectedLanguage' = "English"
          /\ selectedCommunity' = "First Nations"
    /\ (SanitizeAndValidate \/ DOMContentLoaded \/ ScrollingCategoryTick) =>
          FilterState' = FilterState

\* C19: the filter state starts as 'English' / 'First Nations'; a language
\* click sets selectedLanguage to the clicked button's data-filter and keeps
\* selectedCommunity, a category click sets selectedCommunity and keeps
\* selectedLanguage, clear-all sets both to the defaults, and sanitization,
\* validation, the first render and the title animation change neither.
C19_FilterStateFrame ==
    /\ FilterState = <<"English", "First Nations">>
    /\ [][FilterStateFrame]_vars

\* both filters have been changed by clicks while the title animation ran
C19_Witness ==
    /\ pc = "ready"
    /\ selectedLanguage = "Italian"
    /\ selectedCommunity = "Arts"
    /\ currentIndex = 3
    /\ validation # NoValidation

-----------------------------------------------------------------------------
(* Properties of the global error handlers.                                 *)

OnPage(id) == \E n \in notices : n.id = id

OneNoticePerEvent ==
    ErrorEvent =>
        /\ Cardinality(notices') = Cardinality(notices) + 1
        /\ \E n \in notices' : n.id = created' /\ n \notin notices
        /\ UNCHANGED uncaught

\* C20: once the listeners are registered, each 'error' or
\* 'unhandledrejection' event adds exactly one notice to the page without
\* throwing, and every notice on the page is eventually off it, by its
\* button or by its timer.
C20_NoticeShownThenRemoved ==
    /\ [][OneNoticePerEvent]_vars
    /\ \A id \in 1..MaxNotices : OnPage(id) ~> ~OnPage(id)

\* two events were handled: the first notice expired, the second was
\* dismissed while its timer is still pending
C20_Witness ==
    /\ handlersRegistered
    /\ created = 2
    /\ notices = {}
    /\ timers = {2}

-----------------------------------------------------------------------------
(* Properties of the dataset.                                               *)

CopiedFields == {"lat", "lng", "community", "languages"}

\* the copy has the length and order of the raw array and the same lat, lng,
\* community and languages in every entry
FaithfulCopy(raw, copy) ==
    /\ Len(copy) = Len(raw)
    /\ \A i \in 1..Len(raw) :
          /\ DOMAIN raw[i] \subseteq DOMAIN copy[i]
          /\ \A f \in CopiedFields :
                /\ f \in DOMAIN copy[i] <=> f \in DOMAIN raw[i]
                /\ f \in DOMAIN raw[i] => copy[i][f] = raw[i][f]

DatasetStep ==
    /\ partners' = partners
    /\ pc # "start" => sanitizedPartners' = sanitizedPartners

\* C21: sanitizePartnerData returns a new array of the same length and order
\* with lat, lng, community and languages copied unchanged and leaves its
\* input as it was; once startup has sanitized the dataset no step creates,
\* updates or deletes an entry of it.
C21_LoadOnceReadMany ==
    /\ [][DatasetStep]_vars
    /\ [](security = "present" /\ pc \in {"load", "ready"}
            => FaithfulCopy(partners, sanitizedPartners))

\* a two-entry dataset was sanitized into a different array and then rendered
\* under another language and category
C21_Witness ==
    /\ pc = "ready"
    /\ security = "present"
    /\ Len(partners) = 2
    /\ sanitizedPartners # partners
    /\ selectedLanguage = "Italian"
    /\ selectedCommunity = "Arts"
    /\ currentIndex = 1

-----------------------------------------------------------------------------
(* Properties of the renderer that concern the map.                         *)

\* C22: when initializeMap left no marker layer, the organisation list is
\* still the one updateDisplay builds for the current language and category,
\* at startup and after every click.
C22_ListWithoutMap ==
    (pc = "ready" /\ ~markerLayer.defined) =>
        organisationList
          = Render(sanitizedPartners, selectedLanguage, selectedCommunity, <<>>, <<>>).list

-----------------------------------------------------------------------------
(* Further properties of generateQrCode and of the sanitizer.               *)

IsHttpUrl(x) ==
    /\ x.t = "string"
    /\ URL(x.v).ok
    /\ URL(x.v).protocol \in { <<"h", "t", "t", "p", ":">>, <<"h", "t", "t", "p", "s", ":">> }

\* C23: with or without the security manager, generateQrCode returns an image
\* only for an input that is a valid http or https URL, and the placeholder
\* for every other input.
C23_QrImageOnlyForHttp ==
    call.fn = "generateQrCode" =>
        /\ call.result.tag \in {"img", "div"}
        /\ call.result.tag = "img" => IsHttpUrl(input)

\* some suffix of s starts with a match of /javascript:/i
HasJavascript(s) ==
    \E i \in 1..Len(s) : StartsWith(SubSeq(s, i, Len(s)), JavascriptColon)

\* some suffix of s starts with a match of /on\w+=/i
HasHandler(s) ==
    \E i \in 1..Len(s) : HandlerMatch(SubSeq(s, i, Len(s))) > 0

\* C24: for every string, the output of sanitizeText has no case-insensitive
\* "javascript:" and no "on" + word characters + "=", also when removing one
\* match joins the fragments of another, and sanitizing the output again
\* returns it unchanged.
C24_SanitizeTextFixpoint ==
    (call.fn = "sanitizeText" /\ input.t = "string") =>
        /\ ~HasJavascript(call.result)
        /\ ~HasHandler(call.result)
        /\ sanitizeText(Str(call.result)) = call.result

-----------------------------------------------------------------------------
(* Further properties of validatePartnerData.                               *)

\* partner[field] is undefined: the property is missing or holds undefined
Absent(p, field) == Prop(p, field) = Undefined

ReportedMissing(result, index, field) ==
    \E k \in 1..Len(result.errors) :
        /\ result.errors[k].index = index
        /\ result.errors[k].kind = "Missing"
        /\ result.errors[k].field = field

\* C25: for every entry and each of the ten required fields, the validator
\* reports 'Missing F' for the entry exactly when F is absent from it; a
\* latitude or longitude of 0 is present and is not reported missing.
C25_MissingIffAbsent ==
    call.fn = "validatePartnerData" =>
        \A i \in 1..Len(dataset) : \A k \in 1..Len(requiredFields) :
            ReportedMissing(call.result, i - 1, requiredFields[k])
                <=> Absent(dataset[i], requiredFields[k])

-----------------------------------------------------------------------------
(* Cards and markers of the entries on display.                             *)

\* both coordinates hold a value, the number 0 included
HasCoordinates(p) == p.lat # Undefined /\ p.lng # Undefined

\* C26: every displayed entry has exactly one card, and exactly one marker iff
\* both its latitude and its longitude are present, 0 counting as present; the
\* marker sits at the entry's coordinates and its popup shows what the card
\* shows.
C26_OneCardOneMarker ==
    Rendered =>
        \A i \in CardPartners :
            /\ Cardinality(CardsOf(i)) = 1
            /\ Cardinality(MarkersOf(i))
                  = (IF HasCoordinates(sanitizedPartners[i]) THEN 1 ELSE 0)
            /\ \A k \in MarkersOf(i) : \A c \in CardsOf(i) :
                  /\ markerLayer.layers[k].lat = sanitizedPartners[i].lat.v
                  /\ markerLayer.layers[k].lng = sanitizedPartners[i].lng.v
                  /\ markerLayer.layers[k].name = organisationList[c].name
                  /\ markerLayer.layers[k].description = organisationList[c].description

-----------------------------------------------------------------------------
(* Two worker versions.  The worker of the previous deployment registers    *)
(* the same fetch listener under its own cache name and stays the active    *)
(* worker, receiving the page's fetch events, until this worker activates.  *)

OLD_CACHE_NAME == "community-resources-v0"

\* a 'fetch' event reaches the old worker: caches.match(event.request) and
\* the first .then
OldFetchMatch ==
    /\ swState \in {"parsed", "installing", "installed", "redundant"}
    /\ fetchEvent.phase \in {"none", "done"}
    /\ \E url \in RequestURLs, destination \in Destinations :
        LET response == match(caches, url)
        IN  fetchEvent' =
              IF goesToNetwork(response)
              THEN [phase |-> "network", url |-> url, destination |-> destination,
                    network |-> TRUE, networkResult |-> "pending",
                    response |-> NoResponse, worker |-> OLD_CACHE_NAME]
              ELSE [phase |-> "done", url |-> url, destination |-> destination,
                    network |-> FALSE, networkResult |-> "none",
                    response |-> response, worker |-> OLD_CACHE_NAME]
    /\ UNCHANGED <<swState, swStep, caches, fetched, keysResult, toDelete, skipWaitingCalled,
                   clientsClaimed>>
    /\ UNCHANGED <<pageVars, fnVars, bootVars, noticeVars>>

\* the old version's cache is the only one when the new worker is registered
InitWorkers == InitSW /\ cacheNames(caches) = {OLD_CACHE_NAME}

NextWorkers == NextSW \/ OldFetchMatch

SpecWorkers == InitWorkers /\ [][NextWorkers]_vars

\* the CACHE_NAME of the worker that handles the event
WorkerCacheName(event) ==
    IF "worker" \in DOMAIN event THEN event.worker ELSE CACHE_NAME

ServedFromCache(event) ==
    event.phase = "done" /\ event.response.from \notin {"none", "network"}

\* C27: with an old worker serving fetches while a new one installs and
\* activates, every response served from cache comes from the cache named by
\* the serving worker's own CACHE_NAME.
C27_OwnCacheOnly ==
    ServedFromCache(fetchEvent) =>
        fetchEvent.response.from = WorkerCacheName(fetchEvent)

\* a step of a fetch listener: the event in flight moves on
FetchStep == fetchEvent' # fetchEvent

\* a step that adds entries to the cache CACHE_NAME and changes nothing else
AddsToCurrentCache ==
    /\ NoCacheLoss
    /\ cacheNames(caches') = cacheNames(caches) \cup {CACHE_NAME}
    /\ \A n \in cacheNames(caches) \ {CACHE_NAME} : UrlsOf(caches', n) = UrlsOf(caches, n)

\* a step that deletes a cache of another name and changes nothing else
DeletesOtherCache ==
    \E n \in cacheNames(caches) \ {CACHE_NAME} :
        /\ cacheNames(caches') = cacheNames(caches) \ {n}
        /\ \A m \in cacheNames(caches') : UrlsOf(caches', m) = UrlsOf(caches, m)

FetchLeavesCaches ==
    /\ FetchStep => caches' = caches
    /\ caches' # caches =>
          \/ swState = "installing" /\ AddsToCurrentCache
          \/ swState = "activating" /\ DeletesOtherCache

\* C28: no step of the fetch handler (cache hit, network pass-through, offline
\* fallback) changes the set of caches or a cache's entries; the caches
\* change only in install, which adds to the current cache, and in activate,
\* which deletes the caches of other names.
C28_FetchLeavesCaches == [][FetchLeavesCaches]_vars

\* the offline fallback has answered a document request after the old
\* version's cache was deleted
C28_Witness ==
    /\ swState = "activated"
    /\ fetchEvent.phase = "done"
    /\ fetchEvent.networkResult = "failed"
    /\ fetchEvent.url = "/legacy.js"
    /\ fetchEvent.response = [from |-> CACHE_NAME, url |-> "/index.html"]
    /\ OLD_CACHE_NAME \in keysResult
    /\ cacheNames(caches) = {CACHE_NAME}

-----------------------------------------------------------------------------
(* Order of the steps of the page load.                                     *)

\* the listener has passed the construction of the security manager, the
\* sanitization and the validation
PastValidation == pc \in {"load", "ready"}

\* C29: on page load the security manager is constructed, the dataset is
\* sanitized and validated, the click handlers are wired and the first render
\* runs, in this order: no render and no click precedes the end of the
\* validation, and the dataset every render reads is the sanitized copy of
\* the raw one.
C29_LoadOrder ==
    /\ pc = "start" => organisationList = <<>> /\ ~markerLayer.defined
    /\ PastValidation =>
          /\ security # "unset"
          /\ validation = validatePartnerData(sanitizedPartners)
          /\ ~sanitizeThrows(partners)
          /\ sanitizedPartners = sanitizePartnerData(partners)
    /\ (Rendered /\ ~uncaught) =>
          organisationList
            = Render(sanitizePartnerData(partners), selectedLanguage,
                     selectedCommunity, <<>>, <<>>).list

-----------------------------------------------------------------------------
(* What the sanitization guarantees to the validator and the renderer.      *)

\* the raw entry holds an email that does not match the email pattern
MalformedEmail(p) == "email" \in DOMAIN p /\ Len(p.email) # 0 /\ ~emailRegexTest(p.email)

\* the raw entry holds a website that is no http or https URL
MalformedWebsite(p) ==
    "website" \in DOMAIN p /\ Len(p.website) # 0 /\ ~IsHttpUrl(Str(p.website))

ErrorKinds(result) == { result.errors[k].kind : k \in 1..Len(result.errors) }

\* C30: with the security manager active every entry the validator and the
\* renderer read has an email that is empty or matches the email pattern and
\* a website that is empty or an http/https URL; the validator emits neither
\* 'Invalid email format' nor 'Invalid website URL', a malformed value is
\* reported as missing, and its card shows no email link.
C30_SanitizedContacts ==
    (security = "present" /\ PastValidation) =>
        /\ \A i \in 1..Len(sanitizedPartners) :
              LET p == sanitizedPartners[i]
              IN  /\ p.email = <<>> \/ emailRegexTest(p.email)
                  /\ p.website = <<>> \/ IsHttpUrl(Str(p.website))
                  /\ MalformedEmail(partners[i]) =>
                        /\ ReportedMissing(validation, i - 1, "email")
                        /\ \A c \in CardsOf(i) : organisationList[c].emailLink = <<>>
                  /\ MalformedWebsite(partners[i]) =>
                        ReportedMissing(validation, i - 1, "website")
        /\ ErrorKinds(validation) \cap {"Invalid email format", "Invalid website URL"} = {}
        /\ \A c \in 1..Len(organisationList) :
              organisationList[c].kind = "card" =>
                \A e \in Elems(organisationList[c].emailLink) : emailRegexTest(e)

\* an entry with a malformed email and website is on display next to one
\* with a well-formed email
C30_Witness ==
    /\ security = "present"
    /\ Rendered
    /\ Len(partners) = 2
    /\ MalformedEmail(partners[1]) /\ MalformedWebsite(partners[1])
    /\ Cardinality(CardsOf(1)) = 1
    /\ \E c \in CardsOf(2) : organisationList[c].emailLink = <<ValidEntry.email>>
    /\ ReportedMissing(validation, 0, "email")
    /\ ReportedMissing(validation, 0, "website")

====
